---- MODULE Spec2Model ----
(***************************************************************************)
(* EventBus of mydrtv.py: a handler registry, an unbounded FIFO queue and  *)
(* one worker thread that dequeues events and calls the handlers of the    *)
(* event's name, plus the client threads that call subscribe, publish and  *)
(* stop.  Time is counted in tenths of a second, the unit of the worker's  *)
(* poll timeout; stop's join timeout is ten of them.  The domain modules   *)
(* (users, catalog, ratings, search) write the in-memory store and publish *)
(* their events on the bus; a string they compare is a sequence of         *)
(* characters.                                                             *)
(***************************************************************************)
EXTENDS Integers, Sequences, FiniteSets, TLC

MaxCalls == 4        \* calls of subscribe, publish and stop made in one run

PollTimeout == 1     \* self._q.get(timeout=0.1)
JoinTimeout == 10    \* self._worker.join(timeout=1)

Names == {"a", "b"}             \* event names in use by the clients of the bus alone
\* the names the create functions of the domain events give
EventNames == {"user.registered", "program.added", "program.rated", "program.searched"}
AllNames == Names \cup EventNames
NoName == "dataclass"           \* a dataclass value that is no Event: it has no name
NotDataclass == "object"        \* a value that is no dataclass
Values == Names \cup {NoName, NotDataclass}   \* what publish is called with
None == [id |-> 0, name |-> "-"]
Idle == [call |-> "-"]          \* no domain call is in progress

VARIABLES
    handlers,    \* self._handlers: name -> list of registrations (<<>> without key)
    keys,        \* the names that are keys of self._handlers
    q,           \* self._q
    stop,        \* self._stop
    worker,      \* where the worker thread is in _run
    event,       \* _run's local: the event being delivered
    live,        \* the list being iterated is the registry's own list
    idx,         \* position of the list iterator of the for loop
    pending,     \* subscribe calls between setdefault and append
    stopPc,      \* where the caller of stop is
    joinLeft,    \* time left of join's timeout
    pollLeft,    \* time left of get's timeout
    pubCalls,    \* publish calls so far; the call number identifies the event
    subCalls,    \* subscribe calls so far; the call number identifies the registration
    stopCalls,   \* stop calls so far
    lastPub,     \* the latest publish call: value, outcome, circumstances
    hist,        \* history of the run, read by the properties only
    store,       \* InMemoryStore: users, programs, ratings_by_program
    op           \* the domain call in progress: arguments, event made, value to return

vars == <<handlers, keys, q, stop, worker, event, live, idx, pending,
          stopPc, joinLeft, pollLeft, pubCalls, subCalls, stopCalls, lastPub, hist,
          store, op>>

appVars == <<store, op>>

busVars == <<handlers, keys, q, stop, worker, event, live, idx, pending>>

\* the calls the client threads have made
Calls == pubCalls + subCalls + stopCalls + (IF op = Idle THEN 0 ELSE 1)

Range(s) == {s[i] : i \in 1..Len(s)}

\* dataclasses.is_dataclass
is_dataclass(v) == v # NotDataclass

\* a put that races with another one and overwrites the item put last
QPutLossy(s, e) == IF s = <<>> THEN <<e>> ELSE [s EXCEPT ![Len(s)] = e]

\* queue.Queue.put on an unbounded queue
QPut(s, e) == Append(s, e)

\* a get that takes the item put last (queue.LifoQueue)
QGetLifo(s) == [item |-> s[Len(s)], rest |-> SubSeq(s, 1, Len(s) - 1)]

\* a get that leaves the item in the queue
QGetPeek(s) == [item |-> Head(s), rest |-> s]

\* queue.Queue.get on a queue that is not empty: the item returned and the
\* queue left
QGet(s) == [item |-> Head(s), rest |-> Tail(s)]

\* EventBus.__init__: the bus after construction, its worker started
BusInit ==
    /\ handlers = [n \in AllNames |-> <<>>]
    /\ keys = {}
    /\ q = <<>>
    /\ stop = FALSE
    /\ worker = "check"
    /\ event = None
    /\ live = FALSE
    /\ idx = 1
    /\ pending = {}
    /\ stopPc = "idle"
    /\ joinLeft = 0
    /\ pollLeft = 0
    /\ pubCalls = 0
    /\ subCalls = 0
    /\ stopCalls = 0
    /\ lastPub = [val |-> "-", out |-> "-", busy |-> FALSE]
    /\ hist = [snap |-> <<>>,       \* the registry list of event's name when event was dequeued
               inv |-> <<>>,        \* the registrations invoked for event so far, in order
               raised |-> FALSE,    \* a handler raised during the delivery of event
               running |-> TRUE,    \* event was accepted while stop was not requested
               deqRunning |-> TRUE, \* event was dequeued while stop was not requested
               undone |-> {},       \* the accepted events whose delivery has not completed
               died |-> "-",        \* what ended the worker, if anything
               lastDone |-> [n \in AllNames |-> 0],  \* per name: the latest event whose delivery completed (task_done)
               callDeq |-> [r \in 1..MaxCalls |-> 0],  \* per registration: the latest event dequeued when subscribe was called
               retDone |-> [r \in 1..MaxCalls |-> 0],  \* ... the latest event of its name delivered when subscribe returned
               pubAtSet |-> -1,     \* publish calls made when stop was first requested
               pubAtRet |-> -1,     \* publish calls made when a stop call first returned
               dropFrom |-> 0,      \* the head of the queue when a stop call first returned
               stopDeq |-> 0]       \* events dequeued after stop was requested

\* App.__init__: a bus and an empty store
Init ==
    /\ BusInit
    /\ store = [users |-> <<>>, programs |-> <<>>, ratings_by_program |-> <<>>]
    /\ op = Idle

\* list.append
ListAppend(l, h) == Append(l, h)

\* subscribe, first half: self._handlers.setdefault(event_name, [])
SubscribeSetdefault(n) ==
    /\ Calls < MaxCalls
    /\ subCalls' = subCalls + 1
    /\ keys' = keys \cup {n}
    /\ pending' = pending \cup {[name |-> n, id |-> subCalls + 1]}
    /\ hist' = [hist EXCEPT !.callDeq[subCalls + 1] = event.id]
    /\ UNCHANGED appVars
    /\ UNCHANGED <<handlers, q, stop, worker, event, live, idx,
                   stopPc, joinLeft, pollLeft, pubCalls, stopCalls, lastPub>>

\* subscribe, second half: .append(handler) on the list setdefault returned
SubscribeAppend(p) ==
    /\ p \in pending
    /\ handlers' = [handlers EXCEPT ![p.name] = ListAppend(@, p.id)]
    /\ pending' = pending \ {p}
    /\ hist' = [hist EXCEPT !.retDone[p.id] = hist.lastDone[p.name]]
    /\ UNCHANGED appVars
    /\ UNCHANGED <<keys, q, stop, worker, event, live, idx,
                   stopPc, joinLeft, pollLeft, pubCalls, subCalls, stopCalls, lastPub>>

\* publish(event), called with the value v by any thread
publish(v) ==
    /\ Calls < MaxCalls
    /\ pubCalls' = pubCalls + 1
    /\ IF ~is_dataclass(v)
       THEN /\ lastPub' = [val |-> v, out |-> "TypeError", busy |-> (worker = "handler")]
            /\ q' = q
            /\ hist' = hist
       ELSE /\ lastPub' = [val |-> v, out |-> "ok", busy |-> (worker = "handler")]
            /\ q' = QPut(q, [id |-> pubCalls + 1, name |-> v])
            /\ hist' = [hist EXCEPT !.undone = @ \cup {pubCalls + 1}]
    /\ UNCHANGED appVars
    /\ UNCHANGED <<handlers, keys, stop, worker, event, live, idx, pending,
                   stopPc, joinLeft, pollLeft, subCalls, stopCalls>>

\* a loop that looks at the stop signal only when the queue is empty
WorkerCheckDrain ==
    /\ worker = "check"
    /\ IF stop /\ q = <<>>
       THEN worker' = "exited" /\ pollLeft' = 0
       ELSE worker' = "get" /\ pollLeft' = PollTimeout
    /\ UNCHANGED appVars
    /\ UNCHANGED <<handlers, keys, q, stop, event, live, idx, pending,
                   stopPc, joinLeft, pubCalls, subCalls, stopCalls, lastPub, hist>>

\* _run: while not self._stop.is_set()
WorkerCheck ==
    /\ worker = "check"
    /\ IF stop
       THEN worker' = "exited" /\ pollLeft' = 0
       ELSE worker' = "get" /\ pollLeft' = PollTimeout
    /\ UNCHANGED appVars
    /\ UNCHANGED <<handlers, keys, q, stop, event, live, idx, pending,
                   stopPc, joinLeft, pubCalls, subCalls, stopCalls, lastPub, hist>>

\* a get made while the handler of the event before is still running (each
\* handler started in a thread of its own and not waited for)
WorkerGetEager ==
    /\ worker \in {"get", "handler"}
    /\ q # <<>>
    /\ event' = QGet(q).item
    /\ q' = QGet(q).rest
    /\ worker' = "lookup"
    /\ pollLeft' = 0
    /\ hist' = [hist EXCEPT
           !.snap = IF QGet(q).item.name # NoName
                    THEN handlers[QGet(q).item.name] ELSE <<>>,
           !.inv = <<>>,
           !.raised = FALSE,
           !.running = (hist.pubAtSet < 0 \/ QGet(q).item.id <= hist.pubAtSet),
           !.deqRunning = ~stop,
           !.stopDeq = IF stop THEN @ + 1 ELSE @]
    /\ UNCHANGED appVars
    /\ UNCHANGED <<handlers, keys, stop, live, idx, pending,
                   stopPc, joinLeft, pubCalls, subCalls, stopCalls, lastPub>>

\* _run: self._q.get(timeout=0.1) returns an event
WorkerGet ==
    /\ worker = "get"
    /\ q # <<>>
    /\ event' = QGet(q).item
    /\ q' = QGet(q).rest
    /\ worker' = "lookup"
    /\ pollLeft' = 0
    /\ hist' = [hist EXCEPT
           !.snap = IF QGet(q).item.name # NoName
                    THEN handlers[QGet(q).item.name] ELSE <<>>,
           !.inv = <<>>,
           !.raised = FALSE,
           !.running = (hist.pubAtSet < 0 \/ QGet(q).item.id <= hist.pubAtSet),
           !.deqRunning = ~stop,
           !.stopDeq = IF stop THEN @ + 1 ELSE @]
    /\ UNCHANGED appVars
    /\ UNCHANGED <<handlers, keys, stop, live, idx, pending,
                   stopPc, joinLeft, pubCalls, subCalls, stopCalls, lastPub>>

\* _run: get raises queue.Empty after its timeout; continue
WorkerEmpty ==
    /\ worker = "get"
    /\ q = <<>>
    /\ pollLeft = 0
    /\ worker' = "check"
    /\ UNCHANGED appVars
    /\ UNCHANGED <<handlers, keys, q, stop, event, live, idx, pending,
                   stopPc, joinLeft, pollLeft, pubCalls, subCalls, stopCalls, lastPub, hist>>

\* _run: self._handlers.get(event.name, []) and iter() of it; event.name
\* raises AttributeError outside any try when the value has no name
WorkerLookup ==
    /\ worker = "lookup"
    /\ IF event.name # NoName
       THEN /\ worker' = "iter"
            /\ live' = (event.name \in keys)
            /\ hist' = hist
       ELSE /\ worker' = "dead"
            /\ live' = live
            /\ hist' = [hist EXCEPT !.died = "AttributeError"]
    /\ idx' = 1
    /\ UNCHANGED appVars
    /\ UNCHANGED <<handlers, keys, q, stop, event, pending,
                   stopPc, joinLeft, pollLeft, pubCalls, subCalls, stopCalls, lastPub>>

\* the list the for loop iterates: the registry's list, or the fresh []
Iterated == IF live THEN handlers[event.name] ELSE <<>>

\* _run: the for loop takes the next handler and calls it, or ends and
\* task_done() is called
WorkerNext ==
    /\ worker = "iter"
    /\ IF idx <= Len(Iterated)
       THEN /\ idx' = idx + 1
            /\ worker' = "handler"
            /\ hist' = [hist EXCEPT !.inv = Append(@, Iterated[idx])]
       ELSE /\ idx' = 1
            /\ worker' = "check"
            /\ hist' = [hist EXCEPT !.lastDone[event.name] = event.id,
                                    !.undone = @ \ {event.id}]
    /\ UNCHANGED appVars
    /\ UNCHANGED <<handlers, keys, q, stop, event, live, pending,
                   stopPc, joinLeft, pollLeft, pubCalls, subCalls, stopCalls, lastPub>>

\* handler(event) returns
HandlerReturn ==
    /\ worker = "handler"
    /\ worker' = "iter"
    /\ UNCHANGED appVars
    /\ UNCHANGED <<handlers, keys, q, stop, event, live, idx, pending,
                   stopPc, joinLeft, pollLeft, pubCalls, subCalls, stopCalls, lastPub, hist>>

\* an except branch that calls the failed handler again
HandlerRaiseRetry ==
    /\ worker = "handler"
    /\ worker' = "iter"
    /\ idx' = idx - 1
    /\ hist' = [hist EXCEPT !.raised = TRUE]
    /\ UNCHANGED appVars
    /\ UNCHANGED <<handlers, keys, q, stop, event, live, pending,
                   stopPc, joinLeft, pollLeft, pubCalls, subCalls, stopCalls, lastPub>>

\* handler(event) raises an Exception: except Exception catches it and prints
HandlerRaise ==
    /\ worker = "handler"
    /\ worker' = "iter"
    /\ hist' = [hist EXCEPT !.raised = TRUE]
    /\ UNCHANGED appVars
    /\ UNCHANGED <<handlers, keys, q, stop, event, live, idx, pending,
                   stopPc, joinLeft, pollLeft, pubCalls, subCalls, stopCalls, lastPub>>

\* handler(event) raises a BaseException that is no Exception (SystemExit,
\* KeyboardInterrupt, GeneratorExit): except Exception lets it through and
\* it ends _run
HandlerRaiseBase ==
    /\ worker = "handler"
    /\ worker' = "dead"
    /\ hist' = [hist EXCEPT !.raised = TRUE, !.died = "handler"]
    /\ UNCHANGED appVars
    /\ UNCHANGED <<handlers, keys, q, stop, event, live, idx, pending,
                   stopPc, joinLeft, pollLeft, pubCalls, subCalls, stopCalls, lastPub>>

\* stop, first half: self._stop.set(), then join(timeout=1) starts
StopSet ==
    /\ stopPc = "idle"
    /\ Calls < MaxCalls
    /\ stopCalls' = stopCalls + 1
    /\ stop' = TRUE
    /\ stopPc' = "joining"
    /\ joinLeft' = JoinTimeout
    /\ hist' = [hist EXCEPT !.pubAtSet = IF @ < 0 THEN pubCalls ELSE @]
    /\ UNCHANGED appVars
    /\ UNCHANGED <<handlers, keys, q, worker, event, live, idx, pending,
                   pollLeft, pubCalls, subCalls, lastPub>>

\* the worker thread has ended
WorkerEnded == worker \in {"exited", "dead"}

\* a join() without a timeout: it returns when the worker has ended
StopReturnNoTimeout ==
    /\ stopPc = "joining"
    /\ worker \in {"exited", "dead"}
    /\ stopPc' = "idle"
    /\ joinLeft' = 0
    /\ hist' = IF hist.pubAtRet >= 0 THEN hist
               ELSE [hist EXCEPT !.pubAtRet = pubCalls,
                                 !.dropFrom = IF q = <<>> THEN 0 ELSE q[1].id]
    /\ UNCHANGED appVars
    /\ UNCHANGED <<handlers, keys, q, stop, worker, event, live, idx, pending,
                   pollLeft, pubCalls, subCalls, stopCalls, lastPub>>

\* a join that does not wait: it returns at once
StopReturnNoWait ==
    /\ stopPc = "joining"
    /\ stopPc' = "idle"
    /\ joinLeft' = 0
    /\ hist' = IF hist.pubAtRet >= 0 THEN hist
               ELSE [hist EXCEPT !.pubAtRet = pubCalls,
                                 !.dropFrom = IF q = <<>> THEN 0 ELSE q[1].id]
    /\ UNCHANGED appVars
    /\ UNCHANGED <<handlers, keys, q, stop, worker, event, live, idx, pending,
                   pollLeft, pubCalls, subCalls, stopCalls, lastPub>>

\* stop, second half: join returns, because the worker ended or the timeout elapsed
StopReturn ==
    /\ stopPc = "joining"
    /\ WorkerEnded \/ joinLeft = 0
    /\ stopPc' = "idle"
    /\ joinLeft' = 0
    /\ hist' = IF hist.pubAtRet >= 0 THEN hist
               ELSE [hist EXCEPT !.pubAtRet = pubCalls,
                                 !.dropFrom = IF q = <<>> THEN 0 ELSE q[1].id]
    /\ UNCHANGED appVars
    /\ UNCHANGED <<handlers, keys, q, stop, worker, event, live, idx, pending,
                   pollLeft, pubCalls, subCalls, stopCalls, lastPub>>

\* a step of the program that takes no time is due: the worker between two
\* blocking points, a get that can return, a join that can return.  These
\* steps are taken before a timeout elapses: the worker thread is not kept
\* from running for a tenth of a second.  Handlers take any time.
Urgent ==
    \/ worker \in {"check", "lookup", "iter"}
    \/ worker = "get" /\ (q # <<>> \/ pollLeft = 0)
    \/ stopPc = "joining" /\ (WorkerEnded \/ joinLeft = 0)

\* the time to the next timeout that is running
Due == IF pollLeft > 0 /\ (joinLeft = 0 \/ pollLeft < joinLeft) THEN pollLeft ELSE joinLeft

\* time passes, up to the next timeout: only a running handler, a waiting get
\* and a waiting join let time pass
Tick ==
    /\ ~Urgent
    /\ Due > 0
    /\ joinLeft' = IF joinLeft > 0 THEN joinLeft - Due ELSE 0
    /\ pollLeft' = IF pollLeft > 0 THEN pollLeft - Due ELSE 0
    /\ UNCHANGED appVars
    /\ UNCHANGED <<busVars, stopPc, pubCalls, subCalls, stopCalls, lastPub, hist>>

Next ==
    \/ \E n \in Names : SubscribeSetdefault(n)
    \/ \E p \in pending : SubscribeAppend(p)
    \/ \E v \in Values : publish(v)
    \/ WorkerCheck
    \/ WorkerGet
    \/ WorkerEmpty
    \/ WorkerLookup
    \/ WorkerNext
    \/ HandlerReturn
    \/ HandlerRaise
    \/ HandlerRaiseBase
    \/ StopSet
    \/ StopReturn
    \/ Tick

Spec == Init /\ [][Next]_vars

\* the steps of the worker thread outside the handlers
WorkerStep == WorkerCheck \/ WorkerGet \/ WorkerEmpty \/ WorkerLookup \/ WorkerNext

\* Time passes, a worker thread that can run does run, and a join that can
\* return does return; a handler need not ever return.
FairSpec == Spec /\ WF_vars(Tick) /\ WF_vars(WorkerStep) /\ WF_vars(StopReturn)

\* a handler invocation ends, one way or another
HandlerEnds == HandlerReturn \/ HandlerRaise \/ HandlerRaiseBase

\* Time passes, a worker thread that can run does run, and every handler
\* invocation terminates.
LiveSpec == Spec /\ WF_vars(Tick) /\ WF_vars(WorkerStep) /\ WF_vars(HandlerEnds)


(***************************************************************************)
(* The domain modules                                                      *)
(***************************************************************************)

MaxPrograms == 2     \* programs added to the catalog in one run
MaxSearches == 1     \* search calls made on one catalog

\* str.lower, character by character
lower_char(c) == CASE c = "A" -> "a" [] c = "B" -> "b" [] OTHER -> c
lower(s) == [i \in 1..Len(s) |-> lower_char(s[i])]

\* a in b for two strings: a is a substring of b
in_str(a, b) == \E i \in 0..(Len(b) - Len(a)) : SubSeq(b, i + 1, i + Len(a)) = a

max(a, b) == IF a >= b THEN a ELSE b
min(a, b) == IF a <= b THEN a ELSE b

\* int(x) of an integer
int(x) == x

\* an optional argument: None, or a value
NoneStr == [none |-> TRUE, val |-> <<>>]
NoneInt == [none |-> TRUE, val |-> 0]
Some(v) == [none |-> FALSE, val |-> v]

\* the truth value `if x:` takes of an optional string and of an optional int
truthy_str(x) == ~x.none /\ x.val # <<>>
truthy_int(x) == ~x.none /\ x.val # 0

\* uuid.uuid4(): an id that no user and no program has yet
uuid4 == Cardinality(DOMAIN store.users) + Cardinality(DOMAIN store.programs) + 1

\* dict.get(k, []) and defaultdict(list)[k]
get(d, k) == IF k \in DOMAIN d THEN d[k] ELSE <<>>

\* d[k] = v of a dict
setitem(d, k, v) == (k :> v) @@ d

\* list(d.values()): the values in the order the keys were inserted, which
\* is the order of the ids
values(d) ==
    LET key(i) == CHOOSE k \in DOMAIN d : Cardinality({j \in DOMAIN d : j < k}) = i - 1
    IN  [i \in 1..Cardinality(DOMAIN d) |-> d[key(i)]]

\* a clamp that has lost its upper end
clampedLow(stars) == max(1, int(stars))

\* rate: stars = max(1, min(5, int(stars)))
clamped(stars) == max(1, min(5, int(stars)))

\* the dict add_program stores
StoredProgram(pid, title, tags, year, genre) ==
    [program_id |-> pid,
     title |-> title,
     tags |-> [i \in 1..Len(tags) |-> lower(tags[i])],
     year |-> year,
     genre |-> lower(genre)]

\* search: the list it returns
results(programs, query, year, genre) ==
    LET all == values(programs)
        ByQuery(p) == \/ in_str(lower(query.val), lower(p.title))
                      \/ \E i \in 1..Len(p.tags) : in_str(lower(query.val), p.tags[i])
        r1 == IF truthy_str(query) THEN SelectSeq(all, ByQuery) ELSE all
        ByYear(p) == p.year = year.val
        r2 == IF truthy_int(year) THEN SelectSeq(r1, ByYear) ELSE r1
        ByGenre(p) == p.genre = lower(genre.val)
    IN  IF truthy_str(genre) THEN SelectSeq(r2, ByGenre) ELSE r2

\* UsersModule.register up to its call of publish
register(username, email) ==
    /\ op = Idle
    /\ Calls < MaxCalls
    /\ store' = [store EXCEPT !.users = setitem(@, uuid4,
                    [user_id |-> uuid4, username |-> username, email |-> email])]
    /\ op' = [call |-> "register",
              args |-> [username |-> username, email |-> email],
              event |-> [name |-> "user.registered", user_id |-> uuid4,
                         username |-> username, email |-> email],
              ret |-> uuid4]
    /\ UNCHANGED <<handlers, keys, q, stop, worker, event, live, idx, pending, stopPc,
                   joinLeft, pollLeft, pubCalls, subCalls, stopCalls, lastPub, hist>>

\* CatalogModule.add_program up to its call of publish
add_program(title, tags, year, genre) ==
    /\ op = Idle
    /\ Calls < MaxCalls
    /\ Cardinality(DOMAIN store.programs) < MaxPrograms
    /\ store' = [store EXCEPT !.programs = setitem(@, uuid4,
                    StoredProgram(uuid4, title, tags, year, genre))]
    /\ op' = [call |-> "add_program",
              args |-> [title |-> title, tags |-> tags, year |-> year, genre |-> genre],
              event |-> [name |-> "program.added", program_id |-> uuid4, title |-> title,
                         tags |-> tags, year |-> year, genre |-> genre],
              ret |-> uuid4]
    /\ UNCHANGED <<handlers, keys, q, stop, worker, event, live, idx, pending, stopPc,
                   joinLeft, pollLeft, pubCalls, subCalls, stopCalls, lastPub, hist>>

\* a rate that keeps the latest rating of a program only
rateReplace(user_id, program_id, stars) ==
    /\ op = Idle
    /\ Calls < MaxCalls
    /\ store' = [store EXCEPT !.ratings_by_program =
                    setitem(@, program_id, <<<<user_id, clamped(stars)>>>>)]
    /\ op' = [call |-> "rate",
              args |-> [user_id |-> user_id, program_id |-> program_id, stars |-> stars],
              event |-> [name |-> "program.rated", user_id |-> user_id,
                         program_id |-> program_id, stars |-> clamped(stars)],
              ret |-> "None"]
    /\ UNCHANGED <<handlers, keys, q, stop, worker, event, live, idx, pending, stopPc,
                   joinLeft, pollLeft, pubCalls, subCalls, stopCalls, lastPub, hist>>

\* RatingsModule.rate up to its call of publish
rate(user_id, program_id, stars) ==
    /\ op = Idle
    /\ Calls < MaxCalls
    /\ store' = [store EXCEPT !.ratings_by_program =
                    setitem(@, program_id,
                            Append(get(@, program_id), <<user_id, clamped(stars)>>))]
    /\ op' = [call |-> "rate",
              args |-> [user_id |-> user_id, program_id |-> program_id, stars |-> stars],
              event |-> [name |-> "program.rated", user_id |-> user_id,
                         program_id |-> program_id, stars |-> clamped(stars)],
              ret |-> "None"]
    /\ UNCHANGED <<handlers, keys, q, stop, worker, event, live, idx, pending, stopPc,
                   joinLeft, pollLeft, pubCalls, subCalls, stopCalls, lastPub, hist>>

\* SearchModule.search up to its call of publish
search(user_id, query, year, genre) ==
    /\ op = Idle
    /\ Calls < MaxCalls
    /\ op' = [call |-> "search",
              args |-> [user_id |-> user_id, query |-> query, year |-> year, genre |-> genre],
              event |-> [name |-> "program.searched", user_id |-> user_id,
                         query |-> IF truthy_str(query) THEN query.val ELSE <<>>],
              ret |-> results(store.programs, query, year, genre)]
    /\ UNCHANGED <<handlers, keys, q, stop, worker, event, live, idx, pending, stopPc,
                   joinLeft, pollLeft, pubCalls, subCalls, stopCalls, lastPub, hist, store>>

\* a second half that publishes nothing for a search that found nothing
PublishAndReturnQuiet ==
    /\ op # Idle
    /\ op' = Idle
    /\ IF op.call = "search" /\ op.ret = <<>>
       THEN UNCHANGED <<q, pubCalls, lastPub, hist>>
       ELSE /\ pubCalls' = pubCalls + 1
            /\ lastPub' = [val |-> op.event.name, out |-> "ok", busy |-> (worker = "handler")]
            /\ q' = QPut(q, [id |-> pubCalls + 1, name |-> op.event.name, data |-> op.event])
            /\ hist' = [hist EXCEPT !.undone = @ \cup {pubCalls + 1}]
    /\ UNCHANGED <<handlers, keys, stop, worker, event, live, idx, pending,
                   stopPc, joinLeft, pollLeft, subCalls, stopCalls, store>>

\* the second half of register, add_program, rate and search:
\* self.bus.publish(X.create(...)) of the event made, and the return
PublishAndReturn ==
    /\ op # Idle
    /\ op' = Idle
    /\ pubCalls' = pubCalls + 1
    /\ lastPub' = [val |-> op.event.name, out |-> "ok", busy |-> (worker = "handler")]
    /\ q' = QPut(q, [id |-> pubCalls + 1, name |-> op.event.name, data |-> op.event])
    /\ hist' = [hist EXCEPT !.undone = @ \cup {pubCalls + 1}]
    /\ UNCHANGED <<handlers, keys, stop, worker, event, live, idx, pending,
                   stopPc, joinLeft, pollLeft, subCalls, stopCalls, store>>

\* the arguments the domain calls are made with
StarsIn == {0, 1, 3, 5, 9}
Titles == {<<"A", "b">>, <<"b">>}
TagLists == {<<>>, <<<<"b", "b">>, <<"A">>>>}
Years == {1, 2}
Genres == {<<>>, <<"A">>}
Queries == {NoneStr, Some(<<"a">>), Some(<<"B">>), Some(<<"a", "b">>)}
YearArgs == {NoneInt, Some(0), Some(1)}
GenreArgs == {NoneStr, Some(<<>>), Some(<<"a">>)}

\* The domain modules on a running bus: the calls of one client thread, the
\* subscriptions to the domain events, and the worker delivering them to
\* handlers that return.  stop is not called, so that a get on the empty
\* queue that times out is followed by the same get again: the worker stays
\* in get until an event is there, and no time is counted.
AppNext ==
    \/ register("anna", "anna@mail.com")
    \/ add_program(<<"A", "b">>, <<<<"A">>>>, 1, <<"A">>)
    \/ \E p \in {0} \cup DOMAIN store.programs, s \in StarsIn : rate(0, p, s)
    \/ search(0, NoneStr, NoneInt, NoneStr)
    \/ PublishAndReturn
    \/ SubscribeSetdefault("program.rated")
    \/ \E p \in pending : SubscribeAppend(p)
    \/ WorkerCheck
    \/ WorkerGet
    \/ WorkerLookup
    \/ WorkerNext
    \/ HandlerReturn

AppSpec == Init /\ [][AppNext]_vars

\* the catalogs add_program makes of up to MaxPrograms programs
Catalogs ==
    LET Stored(pid) == {StoredProgram(pid, t, g, y, r) :
                            t \in Titles, g \in TagLists, y \in Years, r \in Genres}
    IN  UNION {[1..n -> UNION {Stored(pid) : pid \in 1..n}] : n \in 0..MaxPrograms}

\* the search calls made so far
Searches == Cardinality({i \in 1..Len(q) : q[i].name = "program.searched"})
            + (IF op # Idle THEN 1 ELSE 0)

\* search as a function of the catalog and its arguments: any catalog that
\* add_program has made, the events of its making delivered
SearchInit ==
    /\ BusInit
    /\ op = Idle
    /\ \E c \in Catalogs :
          /\ \A pid \in DOMAIN c : c[pid].program_id = pid
          /\ store = [users |-> <<>>, programs |-> c, ratings_by_program |-> <<>>]

SearchNext ==
    \/ \E query \in Queries, year \in YearArgs, genre \in GenreArgs :
          Searches < MaxSearches /\ search(0, query, year, genre)
    \/ PublishAndReturn

SearchSpec == SearchInit /\ [][SearchNext]_vars

(***************************************************************************)
(* Properties                                                              *)
(***************************************************************************)

\* the worker is between the get that returned event and the end of its delivery
Delivering == worker \in {"lookup", "iter", "handler"}

\* the registration whose handler was called last
Invoked == hist.inv[Len(hist.inv)]

InSnap(r) == r \in Range(hist.snap)

\* the registrations that were in the list when event was dequeued have been
\* invoked once each, in the order of the list
SnapInvokedOnceInOrder == SelectSeq(hist.inv, InSnap) = hist.snap

\* C1: once the worker is through with an event that was accepted while stop
\* was not requested, every handler that was registered under the event's
\* name when it was dequeued has been invoked exactly once for it, in
\* registration order.
C1_InvokedOnceInOrder ==
    (event # None /\ hist.running /\ ~Delivering) => SnapInvokedOnceInOrder

\* C2: a handler that raised during the delivery of an event neither ends
\* the worker nor keeps a handler registered after it from being invoked
\* for that event, and publish never reports it.
C2_FailureIsolated ==
    /\ hist.raised =>
          /\ hist.died # "handler"
          /\ ~Delivering => SnapInvokedOnceInOrder
    /\ lastPub.val \in Names \cup {NoName} => lastPub.out = "ok"

\* C3: while a handler runs for an event, every event that was enqueued
\* before it has had its delivery completed (event ids follow enqueue order).
C3_GlobalEnqueueOrder ==
    worker = "handler" =>
        /\ \A e \in hist.undone : e >= event.id
        /\ \A i \in 1..Len(q) : q[i].id > event.id

\* C3 happens: a handler runs for the second of two events of different names
C3_Witness ==
    /\ worker = "handler"
    /\ \E n \in Names : n # event.name /\ hist.lastDone[n] > 0
                        /\ hist.lastDone[n] < event.id /\ handlers[n] # <<>>

\* C4: a publish of a dataclass value appends that one event to the queue
\* and changes nothing of the worker or of the delivery in progress, no
\* handler is invoked by it, and it can be made while a handler is running.
C4_PublishFireAndForget ==
    /\ [](worker = "handler" /\ Calls < MaxCalls => ENABLED publish("a"))
    /\ [][(pubCalls' # pubCalls /\ is_dataclass(lastPub'.val)) =>
            /\ q' = Append(q, [id |-> pubCalls', name |-> lastPub'.val])
            /\ lastPub'.out = "ok"
            /\ worker' = worker /\ event' = event /\ idx' = idx
            /\ hist'.inv = hist.inv]_vars

\* C4 happens: an event was published while a handler was running and is
\* in the queue, the handler still running
C4_Witness ==
    /\ worker = "handler"
    /\ lastPub.out = "ok" /\ lastPub.busy
    /\ q # <<>> /\ q[Len(q)].id = pubCalls

\* C5: a publish of a value that is no Event fails with an error and leaves
\* the queue alone: no such value is ever queued or dequeued.
C5_InvalidEventRejected ==
    /\ lastPub.val \in {NoName, NotDataclass} => lastPub.out = "TypeError"
    /\ \A i \in 1..Len(q) : q[i].name \in Names
    /\ event # None => event.name \in Names

\* C6: a stop call that has set the signal and waits for the worker returns,
\* whatever the worker does.
C6_StopReturns == (stopPc = "joining") ~> (stopPc = "idle")

\* C6 happens: a stop call has returned while a handler is still running
C6_Witness == stopCalls > 0 /\ stopPc = "idle" /\ worker = "handler"

\* C7: a publish of a dataclass value made after a stop call returned is
\* accepted and the event is in the queue, and no handler runs for an
\* event published after a stop call returned.
C7_PostStopPublishNeverDelivered ==
    hist.pubAtRet >= 0 =>
        /\ worker = "handler" => event.id <= hist.pubAtRet
        /\ (pubCalls > hist.pubAtRet /\ is_dataclass(lastPub.val)) =>
              /\ lastPub.out = "ok"
              /\ q # <<>> /\ q[Len(q)] = [id |-> pubCalls, name |-> lastPub.val]

\* C7 happens: an event of a name that has a handler was published after
\* stop returned, and the worker has exited
C7_Witness ==
    /\ hist.pubAtRet >= 0 /\ pubCalls > hist.pubAtRet
    /\ lastPub.out = "ok" /\ lastPub.val \in Names /\ handlers[lastPub.val] # <<>>
    /\ worker = "exited"

\* C8: no handler runs for an event that was in the queue when a stop call
\* returned (the events queued then are that queue's head and all later ones).
C8_LeftoverDropped ==
    (hist.dropFrom > 0 /\ worker = "handler") => event.id < hist.dropFrom

\* C8 happens: a stop call returned with an event of a name that has a
\* handler in the queue, the worker has delivered an earlier event and exited
C8_Witness ==
    /\ hist.dropFrom > 0 /\ worker = "exited" /\ event # None
    /\ q # <<>> /\ q[1].id = hist.dropFrom
    /\ q[1].name \in Names /\ handlers[q[1].name] # <<>>

\* C9 as stated: a handler subscribed after an event of its name was
\* delivered runs only for events that were delivered after its subscribe
\* returned and dequeued after its subscribe was called.
C9_OnlyLaterDequeued ==
    (worker = "handler" /\ hist.retDone[Invoked] > 0) =>
        /\ event.id > hist.retDone[Invoked]
        /\ event.id > hist.callDeq[Invoked]

\* C9 as amended: a handler never runs for an event whose delivery had
\* completed when its subscribe returned; it runs only for events dequeued
\* after its subscribe was called and for the event in flight at that call.
C9_NeverAlreadyDelivered ==
    worker = "handler" =>
        /\ event.id > hist.retDone[Invoked]
        /\ event.id >= hist.callDeq[Invoked]

\* C9 happens: a handler subscribed after an event of its name was delivered
\* runs for the event that was in flight when its subscribe was called
C9_Witness ==
    /\ worker = "handler"
    /\ hist.retDone[Invoked] > 0
    /\ event.id = hist.callDeq[Invoked]

\* the registrations whose subscribe call has returned
Subscribed == (1..subCalls) \ {p.id : p \in pending}

\* the places of the registry's lists that hold registration r
Places(r) == {<<n, i>> \in Names \X (1..MaxCalls) : i <= Len(handlers[n]) /\ handlers[n][i] = r}

\* C10: every subscribe call that returned has left its registration in the
\* registry once, and once the worker is through with an event that it
\* dequeued while stop was not requested, every handler whose subscribe had
\* returned before the dequeue has been invoked for it.
C10_SubscribeSafe ==
    /\ \A r \in Subscribed : Cardinality(Places(r)) = 1
    /\ (event # None /\ hist.deqRunning /\ ~Delivering) =>
           \A r \in Range(hist.snap) : r \in Range(hist.inv)

\* the stars values in ratings_by_program
StoredStars ==
    UNION {{store.ratings_by_program[p][i][2] : i \in 1..Len(store.ratings_by_program[p])} :
              p \in DOMAIN store.ratings_by_program}

\* the value of stars brought into [1,5]
InRange(stars) == IF stars < 1 THEN 1 ELSE IF stars > 5 THEN 5 ELSE stars

\* the events that are in the queue or being delivered
InFlight == Range(q) \cup (IF Delivering THEN {event} ELSE {})

\* C11: every stars value in ratings_by_program is in 1..5; a rate call has
\* appended its user with 1 for stars below 1, 5 for stars above 5 and stars
\* itself otherwise; and the ProgramRated event made by the call, in the
\* queue or being delivered, carries the value that was stored.
C11_StarsClamped ==
    /\ StoredStars \subseteq 1..5
    /\ op.call = "rate" =>
          LET l == store.ratings_by_program[op.args.program_id]
          IN  /\ l[Len(l)] = <<op.args.user_id, InRange(op.args.stars)>>
              /\ op.event.stars = l[Len(l)][2]
    /\ \A e \in InFlight : e.name = "program.rated" =>
          <<e.data.user_id, e.data.stars>> \in Range(get(store.ratings_by_program, e.data.program_id))

\* C11 happens: a program was rated with 0 and is rated with 9, and the event
\* of the first rating is being delivered to a handler
C11_Witness ==
    /\ op.call = "rate" /\ op.args.stars = 9
    /\ store.ratings_by_program[op.args.program_id] = <<<<0, 1>>, <<0, 5>>>>
    /\ worker = "handler" /\ event.name = "program.rated" /\ event.data.stars = 1

\* the name of the event that a domain call publishes
EventOf(call) ==
    CASE call = "register" -> "user.registered"
      [] call = "add_program" -> "program.added"
      [] call = "rate" -> "program.rated"
      [] call = "search" -> "program.searched"

\* C12: a domain call puts nothing into the queue before its publish, its
\* publish puts one event of the call's kind at the end of the queue, and
\* no other step publishes; the event of a search without query text has
\* the empty string as query.
C12_OneEventPerCall ==
    /\ [](op.call = "search" /\ (op.args.query.none \/ op.args.query.val = <<>>)
            => op.event.query = <<>>)
    /\ [][/\ (op = Idle /\ op' # Idle) => (q' = q /\ pubCalls' = pubCalls)
          /\ (op # Idle /\ op' = Idle) =>
                /\ pubCalls' = pubCalls + 1
                /\ q' = Append(q, [id |-> pubCalls', name |-> EventOf(op.call), data |-> op.event])
                /\ op.event.name = EventOf(op.call)
          /\ (pubCalls' # pubCalls \/ Len(q') > Len(q)) => (op # Idle /\ op' = Idle)]_vars

\* C12 happens: a search without query text on an empty catalog has
\* returned, and its event with the empty query is the last of the queue,
\* after a user was registered and a rating made
C12_Witness ==
    /\ op = Idle /\ q # <<>> /\ store.programs = <<>>
    /\ q[Len(q)].name = "program.searched" /\ q[Len(q)].data.query = <<>>
    /\ store.users # <<>> /\ store.ratings_by_program # <<>>

\* search's criteria that are given hold of the program p
Satisfies(p, a) ==
    /\ ~a.query.none =>
          \/ in_str(lower(a.query.val), lower(p.title))
          \/ \E i \in 1..Len(p.tags) : in_str(lower(a.query.val), lower(p.tags[i]))
    /\ ~a.year.none => p.year = a.year.val
    /\ ~a.genre.none => lower(p.genre) = lower(a.genre.val)

SatisfiesArgs(p) == Satisfies(p, op.args)

\* C13: search returns the stored programs that satisfy all the criteria
\* given, and leaves the stored programs as they are.
C13_SearchExact ==
    /\ [](op.call = "search" => op.ret = SelectSeq(values(store.programs), SatisfiesArgs))
    /\ [][op'.call = "search" => store'.programs = store.programs]_vars

\* the store holds what the event e describes
Described(e) ==
    CASE e.name = "user.registered" ->
            /\ e.data.user_id \in DOMAIN store.users
            /\ store.users[e.data.user_id] =
                  [user_id |-> e.data.user_id, username |-> e.data.username, email |-> e.data.email]
      [] e.name = "program.added" ->
            /\ e.data.program_id \in DOMAIN store.programs
            /\ store.programs[e.data.program_id] =
                  StoredProgram(e.data.program_id, e.data.title, e.data.tags, e.data.year, e.data.genre)
      [] e.name = "program.rated" ->
            <<e.data.user_id, e.data.stars>> \in
                Range(get(store.ratings_by_program, e.data.program_id))
      [] OTHER -> TRUE

\* d holds every entry of c
Keeps(c, d) == \A k \in DOMAIN c : k \in DOMAIN d /\ d[k] = c[k]

\* every list of d begins with the list c has for the key
Extends(c, d) ==
    \A k \in DOMAIN c : /\ k \in DOMAIN d
                        /\ Len(d[k]) >= Len(c[k])
                        /\ SubSeq(d[k], 1, Len(c[k])) = c[k]

\* C14: the store holds the user, program or rating that an event in the
\* queue or in delivery describes, and a step removes no user and no program
\* and only appends to the ratings of a program.
C14_StoreBeforePublish ==
    /\ [](\A e \in InFlight : Described(e))
    /\ [][/\ Keeps(store.users, store'.users)
          /\ Keeps(store.programs, store'.programs)
          /\ Extends(store.ratings_by_program, store'.ratings_by_program)]_vars

\* C14 happens: the event of the first of two ratings of a program is being
\* delivered to a handler while the events of a registration and of an added
\* program wait in the queue
C14_Witness ==
    /\ worker = "handler" /\ event.name = "program.rated"
    /\ Len(get(store.ratings_by_program, event.data.program_id)) = 2
    /\ \E i \in 1..Len(q) : q[i].name = "program.added"

\* the ids of the events in the queue
QIds == {q[i].id : i \in 1..Len(q)}

\* C15: the one event that is dequeued and not delivered is the worker's
\* current one, an event is dequeued only by the worker waiting in get (no
\* handler is running then), and a step in which a handler is called or an
\* event is dequeued is no step of a publish, subscribe or stop call.
C15_SequentialDelivery ==
    /\ [](\A e \in hist.undone \ QIds : e = event.id)
    /\ [][(event' # event \/ hist'.inv # hist.inv) =>
            /\ worker \in {"get", "iter"}
            /\ event' # event => worker = "get"
            /\ pubCalls' = pubCalls /\ subCalls' = subCalls /\ stopCalls' = stopCalls]_vars

\* C15 happens: the second handler of an event runs while the next event waits
C15_Witness == worker = "handler" /\ Len(hist.inv) = 2 /\ q # <<>>

\* C16: after stop was requested the worker dequeues at most one more event.
C16_AtMostOneAfterStop == hist.stopDeq <= 1

\* C16 happens: the worker took one event after stop was requested, delivered
\* it to a handler and exited with another event left in the queue
C16_Witness ==
    /\ hist.stopDeq = 1 /\ worker = "exited" /\ q # <<>>
    /\ Len(hist.inv) > 0

\* C17: an event that was dequeued is not in the queue, the events dequeued
\* have growing ids (none is dequeued twice), and no registration is invoked
\* twice in the delivery of an event, whether its handler raised or not.
C17_NoRedelivery ==
    /\ [](event.id \notin QIds)
    /\ [](Cardinality(Range(hist.inv)) = Len(hist.inv))
    /\ [][(worker = "get" /\ worker' = "lookup") => event'.id > event.id]_vars

\* C17 happens: a handler raised, the delivery of its event went on to the
\* handler after it and completed, and the worker is back at its loop test
\* with another event waiting
C17_Witness ==
    /\ worker = "check" /\ hist.raised /\ Len(hist.inv) = 2
    /\ event.id \notin hist.undone
    /\ q # <<>>

\* C18: while stop is not requested the worker thread has not ended.
C18_WorkerNeverEnds == ~stop => ~WorkerEnded

\* C19: when stop is never requested, every event that publish accepted has
\* its delivery completed at some time.
C19_EventuallyDelivered ==
    ([](~stop)) => \A e \in 1..MaxCalls : (e \in hist.undone) ~> (e \notin hist.undone)

\* the handlers that the loop of the current delivery has still to call
Left == Len(Iterated) - idx + 1

\* C20: while a handler runs for an event, the number of handlers that the
\* delivery of that event has still to call does not grow (a subscribe made
\* during the handler's run adds no handler to the delivery in progress), so
\* that the delivery comes to its end.
C20_DeliveryNotExtended ==
    [][(worker = "handler" /\ worker' = "handler") => Left' <= Left]_vars

====
